---- MODULE Spec2Model ----
(***************************************************************************)
(* A model of the two course notebooks of CompOmics/intro-to-deep-learning *)
(*   src/1-neural-networks.ipynb     (dataset, linear classifier, one      *)
(*                                    training step, the epoch loop)       *)
(*   src/2-pytorch-lightning.ipynb   (the Lightning module, the            *)
(*                                    configurable classifier, the sweep)  *)
(*                                                                         *)
(* The notebooks' own code is modelled statement by statement.  The calls  *)
(* into torch (tensor indexing, squeeze, nn.Linear, BCEWithLogitsLoss,     *)
(* random_split, DataLoader, Adam) are modelled by the behaviour of these  *)
(* library functions at the place where the notebooks call them.           *)
(*                                                                         *)
(* Specifications                                                          *)
(*   SpecData   the CancerDataset: construction, __len__, __getitem__      *)
(*   SpecSplit  random_split, the two DataLoaders and passes over them     *)
(*   SpecModel  the three BreastCancerClassifier definitions and the       *)
(*              forward computations on batches of any shape               *)
(*   Spec       training: the notebook-1 training step and epoch loop,     *)
(*              and Trainer.fit on a BreastCancerModule (notebook 2)       *)
(*   SpecSweep  the fit cells of notebook 2, the run tracked by wandb and   *)
(*              the hyperparameter sweep: wandb.agent running sweep()      *)
(*   SpecSweepFair  the same, every enabled statement eventually runs      *)
(*   SpecUse    every use of a dataset: the calls and the pipeline over a  *)
(*              small table, and the training programs of Spec             *)
(***************************************************************************)
EXTENDS Integers, Sequences, FiniteSets, TLC

VARIABLES
    table,      \* the (features, targets) arguments of CancerDataset(...)
    features,   \* CancerDataset.features: float32 tensor, one row per sample
    targets,    \* CancerDataset.targets: float32 tensor, one entry per sample
    result,     \* outcome of the last call on the dataset
    cell,       \* data pipeline: which of its statements have run
    data_train,             \* Subset.indices of the train subset
    data_validation,        \* Subset.indices of the validation subset
    batch_x,    \* loop variable batch_x: the features of the last batch fetched
    batch_y,    \* loop variable batch_y: the labels of the last batch fetched
    last_pass,  \* which loader was iterated last ("none" before the first pass)
    net,        \* the BreastCancerClassifier object under construction / in use
    call,       \* the last forward call on net: its input, what ran, its result
    program,    \* which notebook runs: "nb1" or "lightning"
    pc,         \* position in that notebook
    todo,       \* statements of the running train / validation step still to run
    params,     \* model.parameters(): parameter name -> value
    grads,      \* the .grad of every parameter ("None" when unset)
    optimizer,  \* the Adam object: its step count and first-moment estimates
    mode,       \* model.training and whether autograd is recording
    y_pred,     \* the logits of the last forward pass
    loss_value, \* the loss of the last loss computation
    pending,    \* batches the running pass over a loader has still to yield
    epoch,      \* loop counter of the epoch loop
    sums,       \* epoch_loss_train, epoch_loss_validation
    losses,     \* train_losses, validation_losses
    error,      \* the exception that ended the program, if any
    step_log,   \* statements the running step has executed, in order
    step_kind,  \* "train" or "validation": the kind of the running / last step
    step_params,   \* the parameter values when the running / last step began
    epoch_log,   \* the batches the loops of the current epoch have taken, in order
    runs,   \* how many times the cell of the epoch loop has been run
    sweep_pc,   \* position of the sweep: in wandb.agent, in sweep(), in fit, ...
    trial,      \* the number of trials the agent has started
    config,     \* the hyperparameter values the controller sampled for the trial
    module,     \* the BreastCancerModule that sweep() built for the trial
    fit,   \* progress of the running trainer.fit: epoch, phase, batches left
    wandb_run,  \* the run wandb.init started last: its number, its state, its log calls
    batch_gradient,   \* the gradient of the loss of the running step, once backward has run
    model_id  \* how many model objects have been built: the number of the current one

dataVars == <<table, features, targets, result>>

splitVars == <<cell, data_train, data_validation, batch_x, batch_y, last_pass>>

modelVars == <<net, call>>

sweepVars == <<sweep_pc, trial, config, module, fit, wandb_run>>

trainVars == <<program, pc, todo, params, grads, optimizer, mode, y_pred,
               loss_value, pending, epoch, sums, losses, error, step_log,
               step_kind, step_params,
               epoch_log,
               runs,
               sweepVars,
               batch_gradient,
               model_id>>

vars == <<table, features, targets, result, cell, data_train,
          data_validation, batch_x, batch_y, last_pass, net, call,
          program, pc, todo, params, grads, optimizer, mode, y_pred,
          loss_value, pending, epoch, sums, losses, error, step_log,
          step_kind, step_params,
          epoch_log,
          runs,
          sweep_pc, trial, config, module, fit, wandb_run,
          batch_gradient,
          model_id>>

(***************************************************************************)
(* Bounds of the model.                                                    *)
(***************************************************************************)
\* largest number of rows of a source table in SpecData
MaxRows == 3
\* number of feature columns of a source table in SpecData
DataWidth == 1

(***************************************************************************)
(* Numbers.  A float64 cell of the source table is the pair <<q, r>> of    *)
(* the float32 value q nearest to it and the residual r that float32       *)
(* cannot hold (r = 0: the cell is exactly representable in float32).      *)
(* A float32 value is the plain number q.                                  *)
(***************************************************************************)
Float64Cells == {<<0, 0>>, <<1, 1>>}

\* the label column holds the integers 0 and 1, exact in every float format
LabelCells == {<<0, 0>>, <<1, 0>>}

\* torch.tensor(values, dtype=torch.float32): round to the nearest float32
ToFloat32(v) == v[1]

NoValue == <<>>

(***************************************************************************)
(* Source tables: a DataFrame of DataWidth numeric columns and a Series    *)
(* of labels with the same number of rows.                                 *)
(***************************************************************************)
SeqsOfLen(S, n) == [1..n -> S]

Tables ==
    UNION { { [features |-> f, targets |-> t] :
                f \in SeqsOfLen(SeqsOfLen(Float64Cells, DataWidth), n),
                t \in SeqsOfLen(LabelCells, n) } : n \in 0..MaxRows }

(***************************************************************************)
(* class CancerDataset(Dataset)                                            *)
(***************************************************************************)
\* __init__: both tensors are converted to float32, row order kept
CancerDataset_init(f, t) ==
    [features |-> [i \in 1..Len(f) |-> [c \in 1..Len(f[i]) |-> ToFloat32(f[i][c])]],
     targets  |-> [i \in 1..Len(t) |-> ToFloat32(t[i])]]

\* __len__: len(self.features), the size of the first dimension
CancerDataset_len(feat) == Len(feat)

\* tensor[idx] for an integer idx on a tensor with n = Len(t) rows: Python
\* indexing.  0 <= idx < n is row idx, -n <= idx < 0 counts from the end
\* (row n + idx), anything else raises IndexError.  Rows are numbered from 0
\* in the source and from 1 in a TLA+ sequence.
TensorIndexWrapsAround(t, idx) ==
    IF Len(t) = 0 THEN [status |-> "IndexError", value |-> NoValue]
    ELSE [status |-> "ok", value |-> t[(idx % Len(t)) + 1]]

TensorIndex(t, idx) ==
    IF 0 <= idx /\ idx < Len(t) THEN [status |-> "ok", value |-> t[idx + 1]]
    ELSE IF -Len(t) <= idx /\ idx < 0
         THEN [status |-> "ok", value |-> t[Len(t) + idx + 1]]
         ELSE [status |-> "IndexError", value |-> NoValue]

\* __getitem__: x = self.features[idx]; y = self.targets[idx]; return x, y
\* An IndexError of either indexing ends the call without a value.
CancerDataset_getitemShifted(feat, targ, idx) ==
    LET x == TensorIndex(feat, idx)
        y == TensorIndex(targ, IF idx + 1 < Len(targ) THEN idx + 1 ELSE 0)
    IN  IF x.status # "ok" THEN [status |-> x.status, value |-> NoValue]
        ELSE IF y.status # "ok" THEN [status |-> y.status, value |-> NoValue]
        ELSE [status |-> "ok", value |-> <<x.value, y.value>>]

CancerDataset_getitem(feat, targ, idx) ==
    LET x == TensorIndex(feat, idx)
        y == TensorIndex(targ, idx)
    IN  IF x.status # "ok" THEN [status |-> x.status, value |-> NoValue]
        ELSE IF y.status # "ok" THEN [status |-> y.status, value |-> NoValue]
        ELSE [status |-> "ok", value |-> <<x.value, y.value>>]

(***************************************************************************)
(* SpecData: a dataset built from any table, then any sequence of len()    *)
(* and dataset[idx] calls.                                                 *)
(***************************************************************************)
\* the integer indices tried: the valid ones and some on either side
Indices == (0 - MaxRows - 1)..(MaxRows + 1)

NoResult == [op |-> "none", idx |-> 0, status |-> "ok", value |-> NoValue]

\* before random_split has run
NoPipeline ==
    /\ cell = "dataset"
    /\ data_train = <<>> /\ data_validation = <<>>
    /\ batch_x = <<>> /\ batch_y = <<>> /\ last_pass = "none"

\* before any classifier has been constructed
NoModel == net = NoValue /\ call = NoValue

\* before any training code has run
\* before wandb.agent has been called
NoSweep ==
    /\ sweep_pc = "none" /\ trial = 0 /\ config = NoValue
    /\ module = NoValue /\ fit = NoValue /\ wandb_run = NoValue

NoTraining ==
    /\ program = "none" /\ pc = "none" /\ todo = <<>>
    /\ params = NoValue /\ grads = NoValue /\ optimizer = NoValue
    /\ mode = NoValue /\ y_pred = NoValue /\ loss_value = NoValue
    /\ pending = <<>> /\ epoch = 0 /\ sums = NoValue /\ losses = NoValue
    /\ error = "none" /\ step_log = <<>> /\ step_kind = "none"
    /\ step_params = NoValue
    /\ epoch_log = <<>>
    /\ runs = 0
    /\ NoSweep
    /\ batch_gradient = NoValue
    /\ model_id = 0

InitData ==
    /\ table \in Tables
    /\ LET ds == CancerDataset_init(table.features, table.targets)
       IN  features = ds.features /\ targets = ds.targets
    /\ result = NoResult
    /\ NoPipeline
    /\ NoModel
    /\ NoTraining

\* len(cancer_dataset)
CallLen ==
    /\ result' = [op |-> "len", idx |-> 0, status |-> "ok",
                  value |-> CancerDataset_len(features)]
    /\ UNCHANGED <<table, features, targets, splitVars, modelVars, trainVars>>

\* a [idx] that takes the last row out of the dataset as it returns
CallGetItemPops ==
    \E idx \in Indices :
        /\ LET r == CancerDataset_getitem(features, targets, idx)
           IN  result' = [op |-> "getitem", idx |-> idx, status |-> r.status,
                          value |-> r.value]
        /\ features' = SubSeq(features, 1, Len(features) - 1)
        /\ targets' = SubSeq(targets, 1, Len(targets) - 1)
        /\ UNCHANGED <<table, splitVars, modelVars, trainVars>>

\* cancer_dataset[idx]
CallGetItem ==
    \E idx \in Indices :
        /\ LET r == CancerDataset_getitem(features, targets, idx)
           IN  result' = [op |-> "getitem", idx |-> idx, status |-> r.status,
                          value |-> r.value]
        /\ UNCHANGED <<table, features, targets, splitVars, modelVars, trainVars>>

NextData == CallLen \/ CallGetItem

SpecData == InitData /\ [][NextData]_vars

(***************************************************************************)
(* Claims about the dataset                                                *)
(***************************************************************************)
\* the number of rows of the source table
NRows == Len(table.features)

\* the Sample of row i (counted from 0) of the source table: its features
\* and its label, each as float32
SampleOfRow(i) ==
    <<[c \in 1..DataWidth |-> ToFloat32(table.features[i + 1][c])],
      ToFloat32(table.targets[i + 1])>>

\* C1: for a dataset built from a table of N rows, len() is N and get(i),
\* 0 <= i < N, succeeds and returns the features of row i together with the
\* label of the same row i.
C1_LenAndGetSameRow ==
    /\ result.op = "len" => result.value = NRows
    /\ (result.op = "getitem" /\ 0 <= result.idx /\ result.idx < NRows)
         => /\ result.status = "ok"
            /\ result.value = SampleOfRow(result.idx)

\* C1 witness: a get(i) on a table whose rows carry different labels and
\* different features has returned a row other than the first
C1_Witness ==
    /\ NRows >= 2
    /\ table.targets[1] # table.targets[2]
    /\ table.features[1] # table.features[2]
    /\ result.op = "getitem" /\ result.idx = 1 /\ result.status = "ok"

\* C2 as stated: every i < 0 or i >= len() makes get(i) fail with IndexError
C2_Original ==
    (result.op = "getitem" /\ (result.idx < 0 \/ result.idx >= NRows))
        => result.status = "IndexError"

\* C2 amended: get(i) fails with IndexError and returns no Sample exactly for
\* i < -len() or i >= len(); for -len() <= i < 0 it returns the Sample of
\* row len() + i.
C2_IndexErrorOutsideRange ==
    result.op = "getitem" =>
        /\ (result.idx < 0 - NRows \/ result.idx >= NRows)
             => (result.status = "IndexError" /\ result.value = NoValue)
        /\ (0 - NRows <= result.idx /\ result.idx < 0)
             => /\ result.status = "ok"
                /\ result.value = SampleOfRow(NRows + result.idx)

\* C2 witness: a get(i) beyond the last row of a non-empty dataset has failed
C2_Witness ==
    /\ NRows >= 1
    /\ result.op = "getitem" /\ result.idx >= NRows
    /\ result.status = "IndexError"

(***************************************************************************)
(* The data pipeline: random_split and the two DataLoaders                 *)
(*   data_train, data_validation =                                         *)
(*       torch.utils.data.random_split(cancer_dataset, [0.8, 0.2])         *)
(*   dataloader_train = DataLoader(data_train, batch_size=32, shuffle=True)*)
(*   dataloader_validation =                                               *)
(*       DataLoader(data_validation, batch_size=32, shuffle=False)         *)
(***************************************************************************)
\* largest dataset the pipeline is run on
MaxLen == 5
\* batch_size of both loaders.  The source sets 32; the loaders depend on it
\* only through the chunking of the index sequence, and the model runs them
\* with a small value so that datasets of a few rows give several batches.
batch_size == 2

\* the fractions [0.8, 0.2] of random_split, in tenths
train_fraction_tenths == 8
validation_fraction_tenths == 2

\* all orders of the elements of S
RECURSIVE OrdersOf(_)
OrdersOf(S) ==
    IF S = {} THEN {<<>>}
    ELSE UNION { { <<x>> \o p : p \in OrdersOf(S \ {x}) } : x \in S }

\* torch.randperm(n): any order of 0 .. n-1
RandpermTable == [n \in 0..(MaxLen + 1) |-> OrdersOf(0..(n - 1))]

randperm(n) == RandpermTable[n]

\* random_split's subset lengths for fractions: floor(n * frac) each, then
\* the remainder handed out one by one, round robin, starting with the
\* first subset
random_split_lengths(n) ==
    LET a == (n * train_fraction_tenths) \div 10
        b == (n * validation_fraction_tenths) \div 10
        remainder == n - (a + b)
    IN  <<a + ((remainder + 1) \div 2), b + (remainder \div 2)>>

\* random_split: consecutive slices of one random permutation of the indices
random_splitOverlapping(n, perm) ==
    LET l == random_split_lengths(n)
    IN  <<SubSeq(perm, 1, l[1]), SubSeq(perm, IF l[1] > 0 THEN l[1] ELSE 1, n)>>

random_split(n, perm) ==
    LET l == random_split_lengths(n)
    IN  <<SubSeq(perm, 1, l[1]), SubSeq(perm, l[1] + 1, l[1] + l[2])>>

\* BatchSampler, drop_last=False: consecutive chunks of b indices, the last
\* one possibly shorter; no chunk for an empty sequence
ChunksOfOne(s, b) == [k \in 1..Len(s) |-> <<s[k]>>]

RECURSIVE Chunks(_, _)
Chunks(s, b) ==
    IF Len(s) = 0 THEN <<>>
    ELSE IF Len(s) <= b THEN <<s>>
    ELSE <<SubSeq(s, 1, b)>> \o Chunks(SubSeq(s, b + 1, Len(s)), b)

\* One batch: Subset.__getitem__(i) = dataset[indices[i]] for every i of the
\* chunk, then the default collate into (features, labels)
Fetch(indices, chunk) ==
    LET item(k) == CancerDataset_getitem(features, targets, indices[chunk[k] + 1])
    IN  [x |-> [k \in 1..Len(chunk) |-> item(k).value[1]],
         y |-> [k \in 1..Len(chunk) |-> item(k).value[2]]]

\* one pass over a DataLoader whose sampler yields `order`: its batches
LoaderPass(indices, order) ==
    LET c == Chunks(order, batch_size)
    IN  [k \in 1..Len(c) |-> Fetch(indices, c[k])]

\* SequentialSampler: range(len(subset))
Sequential(n) == [i \in 1..n |-> i - 1]

\* a dataset of n rows whose rows differ: row i has feature value and label
\* i mod 2
PipelineTable(n) ==
    [features |-> [i \in 1..n |-> [c \in 1..DataWidth |-> <<i % 2, i % 2>>]],
     targets  |-> [i \in 1..n |-> <<i % 2, 0>>]]

InitSplit ==
    /\ \E n \in 0..MaxLen : table = PipelineTable(n)
    /\ LET ds == CancerDataset_init(table.features, table.targets)
       IN  features = ds.features /\ targets = ds.targets
    /\ result = NoResult
    /\ NoPipeline
    /\ NoModel
    /\ NoTraining

\* data_train, data_validation = random_split(cancer_dataset, [0.8, 0.2])
RandomSplit ==
    /\ cell = "dataset"
    /\ \E perm \in randperm(CancerDataset_len(features)) :
         LET s == random_split(CancerDataset_len(features), perm)
         IN  data_train' = s[1] /\ data_validation' = s[2]
    /\ cell' = "split"
    /\ UNCHANGED <<dataVars, batch_x, batch_y, last_pass, modelVars, trainVars>>

\* the two DataLoader(...) constructions.  shuffle=True builds a
\* RandomSampler, which raises ValueError for a subset without samples.
MakeLoaders ==
    /\ cell = "split"
    /\ cell' = IF Len(data_train) = 0 THEN "ValueError" ELSE "loaders"
    /\ UNCHANGED <<dataVars, data_train, data_validation, batch_x, batch_y,
                   last_pass, modelVars, trainVars>>

\* for batch_x, batch_y in dataloader_train: a fresh random order per pass.
\* After the loop the loop variables hold the last batch.
PassTrain ==
    /\ cell = "loaders"
    /\ \E order \in randperm(Len(data_train)) :
         LET b == LoaderPass(data_train, order)
         IN  /\ batch_x' = b[Len(b)].x
             /\ batch_y' = b[Len(b)].y
    /\ last_pass' = "train"
    /\ UNCHANGED <<dataVars, cell, data_train, data_validation, modelVars, trainVars>>

\* for batch_x, batch_y in dataloader_validation: the subset's own order.
\* A loader without batches leaves the loop variables as they were.
PassValidation ==
    /\ cell = "loaders"
    /\ LET b == LoaderPass(data_validation, Sequential(Len(data_validation)))
       IN  IF Len(b) = 0 THEN UNCHANGED <<batch_x, batch_y>>
           ELSE /\ batch_x' = b[Len(b)].x
                /\ batch_y' = b[Len(b)].y
    /\ last_pass' = "validation"
    /\ UNCHANGED <<dataVars, cell, data_train, data_validation, modelVars, trainVars>>

NextSplit == RandomSplit \/ MakeLoaders \/ PassTrain \/ PassValidation

SpecSplit == InitSplit /\ [][NextSplit]_vars

(***************************************************************************)
(* Claims about the split                                                  *)
(***************************************************************************)
SplitExists == cell \in {"split", "loaders", "ValueError"}

\* the two index lists together hold every index 0 .. N-1 exactly once
IsPartition(tr, va, n) ==
    LET all == tr \o va
    IN  /\ Len(all) = n
        /\ { all[i] : i \in 1..Len(all) } = 0..(n - 1)
        /\ { tr[i] : i \in 1..Len(tr) } \cap { va[i] : i \in 1..Len(va) } = {}

\* C3: once random_split has run, the train and the validation index sets
\* are disjoint and their union is exactly {0..N-1}, for every dataset
\* length N, and no later step (loader construction, passes over either
\* loader in any number) changes either of them.
C3_SplitPartitionsAndStays ==
    /\ [](SplitExists =>
            IsPartition(data_train, data_validation, CancerDataset_len(features)))
    /\ [][SplitExists => UNCHANGED <<data_train, data_validation>>]_vars

\* C3 witness: both subsets are non-empty, the train loader has been passed
\* and then the validation loader
C3_Witness ==
    /\ cell = "loaders"
    /\ Len(data_train) > 0 /\ Len(data_validation) > 0
    /\ last_pass = "validation"
    /\ Len(batch_y) > 0

(***************************************************************************)
(* The classifiers.  A tensor is modelled by its shape, a sequence of      *)
(* dimension sizes (<<n, 30>> is a batch of n feature vectors, <<>> a      *)
(* 0-dimensional scalar).  A forward computation is the record of the      *)
(* operations it applied, in order, and the shape of its result.           *)
(***************************************************************************)
\* largest batch handed to a classifier in SpecModel
MaxBatch == 3

\* nn.Linear(30, ...): the width of the first layer of every definition
in_features == 30

\* sweep_configuration["parameters"]
hidden_layers_values == {0, 1, 2}
hidden_neurons_values == {2, 4, 8, 16, 32}

\* the defaults of BreastCancerClassifier(hidden_layers=1, hidden_neurons=10)
Default_hidden_layers == 1
Default_hidden_neurons == 10

nn_Linear(i, o) == [in_features |-> i, out_features |-> o]

\* a running forward computation on input shape x
Start(x) == [status |-> "ok", x |-> x, ops |-> <<>>]

\* layer(x) for an nn.Linear: the last dimension must be in_features and
\* becomes out_features; any other input raises RuntimeError (shapes cannot
\* be multiplied)
ApplyLinearUnchecked(r, layer) ==
    IF r.status # "ok" THEN r
    ELSE [status |-> "ok",
          x      |-> [r.x EXCEPT ![Len(r.x)] = layer.out_features],
          ops    |-> Append(r.ops, "Linear")]

ApplyLinear(r, layer) ==
    IF r.status # "ok" THEN r
    ELSE IF Len(r.x) >= 1 /\ r.x[Len(r.x)] = layer.in_features
         THEN [status |-> "ok",
               x      |-> [r.x EXCEPT ![Len(r.x)] = layer.out_features],
               ops    |-> Append(r.ops, "Linear")]
         ELSE [status |-> "RuntimeError", x |-> NoValue, ops |-> r.ops]

\* self.activation(x) for nn.ReLU: elementwise, the shape is kept
ApplyReLU(r) ==
    IF r.status # "ok" THEN r
    ELSE [r EXCEPT !.ops = Append(r.ops, "ReLU")]

\* notebook 1: self.layer1 = nn.Linear(30, 1)
BreastCancerClassifier_nb1 ==
    [definition |-> "nb1", args |-> <<>>,
     layers |-> <<nn_Linear(in_features, 1)>>]

\* notebook 2, first definition: 30 -> 20 -> 10 -> 1
BreastCancerClassifier_nb2 ==
    [definition |-> "nb2", args |-> <<>>,
     layers |-> <<nn_Linear(in_features, 20), nn_Linear(20, 10), nn_Linear(10, 1)>>]

\* notebook 2, configurable definition:
\*   self.layers.append(nn.Linear(30, hidden_neurons))
\*   for _ in range(hidden_layers - 1):
\*       self.layers.append(nn.Linear(hidden_neurons, hidden_neurons))
\*   self.layers.append(nn.Linear(hidden_neurons, 1))
BreastCancerClassifier_sweep(hidden_layers, hidden_neurons) ==
    [definition |-> "sweep", args |-> <<hidden_layers, hidden_neurons>>,
     layers |-> <<nn_Linear(in_features, hidden_neurons)>>
                \o [k \in 1..(hidden_layers - 1) |->
                        nn_Linear(hidden_neurons, hidden_neurons)]
                \o <<nn_Linear(hidden_neurons, 1)>>]

\* notebook 1 forward: x = self.layer1(x); return x
Forward_nb1(layers, x) == ApplyLinear(Start(x), layers[1])

\* notebook 2, first definition: layer1, activation, layer2, activation, layer3
Forward_nb2(layers, x) ==
    ApplyLinear(ApplyReLU(ApplyLinear(ApplyReLU(ApplyLinear(Start(x),
        layers[1])), layers[2])), layers[3])

\* notebook 2, configurable definition:
\*   for layer in self.layers[:-1]: x = layer(x); x = self.activation(x)
\*   x = self.layers[-1](x)
RECURSIVE HiddenStages(_, _, _)
HiddenStages(r, layers, k) ==
    IF k > Len(layers) - 1 THEN r
    ELSE HiddenStages(ApplyReLU(ApplyLinear(r, layers[k])), layers, k + 1)

Forward_sweepActivatesLast(layers, x) ==
    ApplyReLU(ApplyLinear(HiddenStages(Start(x), layers, 1), layers[Len(layers)]))

Forward_sweep(layers, x) ==
    ApplyLinear(HiddenStages(Start(x), layers, 1), layers[Len(layers)])

\* model(x): the forward of the definition the object was built from
Forward(m, x) ==
    CASE m.definition = "nb1" -> Forward_nb1(m.layers, x)
      [] m.definition = "nb2" -> Forward_nb2(m.layers, x)
      [] m.definition = "sweep" -> Forward_sweep(m.layers, x)

\* tensor.squeeze(): every dimension of size 1 is removed
Squeeze(shape) == SelectSeq(shape, LAMBDA d : d # 1)

\* BreastCancerModule.forward: return self.model(x).squeeze()
\* (notebook 1 applies the same squeeze to y_pred in its training step)
ModuleForward(m, x) ==
    LET r == Forward(m, x)
    IN  IF r.status # "ok" THEN r
        ELSE [r EXCEPT !.x = Squeeze(r.x), !.ops = Append(r.ops, "squeeze")]

\* nn.BCEWithLogitsLoss()(input, target): the two shapes must be equal,
\* otherwise ValueError; the result is a 0-dimensional tensor
BCEWithLogitsLoss(input, target) ==
    IF input = target THEN [status |-> "ok", x |-> <<>>]
    ELSE [status |-> "ValueError", x |-> NoValue]

\* the widths of the feature vectors a classifier is called with
Widths == {in_features - 1, in_features}

Configurations ==
    (hidden_layers_values \X hidden_neurons_values)
        \cup {<<Default_hidden_layers, Default_hidden_neurons>>}

InitModel ==
    /\ table = PipelineTable(0)
    /\ features = <<>> /\ targets = <<>>
    /\ result = NoResult
    /\ NoPipeline
    /\ NoModel
    /\ NoTraining

\* model = BreastCancerClassifier(...) with any of the three definitions
Construct ==
    /\ \/ net' = BreastCancerClassifier_nb1
       \/ net' = BreastCancerClassifier_nb2
       \/ \E c \in Configurations : net' = BreastCancerClassifier_sweep(c[1], c[2])
    /\ call' = NoValue
    /\ UNCHANGED <<dataVars, splitVars, trainVars>>

\* y_hat = model(x).squeeze(); loss = loss_fn(y_hat, y) on a batch of n
\* feature vectors of width w with its n labels
CallForward ==
    /\ net # NoValue
    /\ \E n \in 1..MaxBatch, w \in Widths :
         LET inner == Forward(net, <<n, w>>)
             outer == ModuleForward(net, <<n, w>>)
             loss  == IF outer.status = "ok"
                      THEN BCEWithLogitsLoss(outer.x, <<n>>)
                      ELSE [status |-> "none", x |-> NoValue]
         IN  call' = [n |-> n, width |-> w, labels |-> <<n>>,
                      status |-> outer.status,
                      ops |-> outer.ops,
                      out |-> inner.x,
                      y_hat |-> outer.x,
                      loss |-> loss.status]
    /\ UNCHANGED <<dataVars, splitVars, net, trainVars>>

NextModel == Construct \/ CallForward

SpecModel == InitModel /\ [][NextModel]_vars

(***************************************************************************)
(* Claims about the classifiers                                            *)
(***************************************************************************)
Called == call # NoValue

\* how many of the operations of a forward computation are `op`
RECURSIVE Count(_, _)
Count(ops, op) ==
    IF ops = <<>> THEN 0
    ELSE (IF Head(ops) = op THEN 1 ELSE 0) + Count(Tail(ops), op)

\* the operations of the classifier proper, without the module's squeeze
ClassifierOps == SelectSeq(call.ops, LAMBDA o : o # "squeeze")

\* C4 as stated: for every batch size n >= 1 the squeezed forward result is
\* one-dimensional of length n, the shape of the batch's n labels
C4_Original ==
    (Called /\ call.width = in_features)
        => (call.status = "ok" /\ call.y_hat = <<call.n>> /\ call.y_hat = call.labels)

C7_Original ==
    (net # NoValue /\ net.definition = "sweep")
        => Len(net.layers) = net.args[1] + 1

(***************************************************************************)
(* Training.                                                               *)
(*                                                                         *)
(* Parameters.  Every nn.Linear owns a weight and a bias tensor; each      *)
(* tensor is one parameter of the model, with one value.  Autograd and     *)
(* the loss are services of torch whose numbers the notebooks do not       *)
(* compute: a loss computation yields one of LossValues, a backward pass   *)
(* one of the gradient assignments of Gradients, zero when the loss is     *)
(* zero.  The loss and the logits carry the parameter values they were     *)
(* computed from, as the autograd graph of the real tensors does.          *)
(***************************************************************************)
\* Trainer(max_epochs=10).  The source sets 10 in every Trainer; the fit loop
\* depends on it only as the number of times the epoch body repeats, and the
\* model runs it with a small value.
max_epochs == 1

\* n_epochs of the notebook-1 epoch loop
n_epochs == 10

\* Trainer's default num_sanity_val_steps: validation batches run before the
\* first training epoch
num_sanity_val_steps == 2

ParamNames(m) == { <<k, f>> : k \in 1..Len(m.layers), f \in {"weight", "bias"} }

\* nn.Linear draws its initial parameter values at random; the model takes
\* one such draw and calls every initial value 0
InitialParams(m) == [p \in ParamNames(m) |-> 0]

\* loss.item() of a batch: 0 when every per-sample loss is exactly zero
LossValues == {0, 1}

\* what loss.backward() adds to the .grad of the parameters
Gradients(names) ==
    { [p \in names |-> 0],
      [p \in names |-> 10],
      [p \in names |-> 0 - 9],
      [p \in names |-> IF p = <<1, "weight">> THEN 10 ELSE 0] }

ZeroGradient(names) == [p \in names |-> 0]

\* torch.optim.Adam(model.parameters(), lr=...): no step taken, first-moment
\* estimates (exp_avg) zero.  lr is kept in units of 0.0001.
Adam(names, lr) ==
    [lr |-> lr, step |-> 0, exp_avg |-> [p \in names |-> 0]]

\* the optimizer holds the parameter tensors of the model whose parameters()
\* it was given: the model's number stands for them
OptimizerOverPrevious(id, names, lr) ==
    [lr |-> lr, step |-> 0, exp_avg |-> [p \in names |-> 0], model |-> id - 1]

OptimizerOver(id, names, lr) ==
    LET a == Adam(names, lr)
    IN  [lr |-> a.lr, step |-> a.step, exp_avg |-> a.exp_avg, model |-> id]

RECURSIVE Pow10(_)
Pow10(k) == IF k = 0 THEN 1 ELSE 10 * Pow10(k - 1)

Sgn(v) == IF v > 0 THEN 1 ELSE IF v < 0 THEN 0 - 1 ELSE 0

\* Adam's first-moment update exp_avg = 0.9 * exp_avg + 0.1 * grad (beta1 =
\* 0.9, the default), exactly: the field holds 10^step * exp_avg, an integer.
AdamMoment(m, g, t) == 9 * m + Pow10(t - 1) * g

\* optimizer.step(): for every parameter with a gradient, step += 1, the
\* moment update, and param -= step_size * exp_avg_hat / (sqrt(v_hat) + eps).
\* The divisor is positive, so the update is zero exactly when exp_avg is
\* zero and otherwise has its sign; the model moves the parameter by one
\* unit in that direction and does not track the update's size.  Parameters
\* whose .grad is None are skipped.
AdamStepIgnoresMoment(opt, prm, grd) ==
    IF grd = NoValue THEN [optimizer |-> opt, params |-> prm]
    ELSE LET t == opt.step + 1
             m == [p \in DOMAIN prm |-> AdamMoment(opt.exp_avg[p], grd[p], t)]
         IN  [optimizer |-> [opt EXCEPT !.step = t, !.exp_avg = m],
              params    |-> [p \in DOMAIN prm |-> prm[p] - Sgn(grd[p])]]

AdamStep(opt, prm, grd) ==
    IF grd = NoValue THEN [optimizer |-> opt, params |-> prm]
    ELSE LET t == opt.step + 1
             m == [p \in DOMAIN prm |-> AdamMoment(opt.exp_avg[p], grd[p], t)]
         IN  [optimizer |-> [opt EXCEPT !.step = t, !.exp_avg = m],
              params    |-> [p \in DOMAIN prm |-> prm[p] - Sgn(m[p])]]

\* The statements of a training step, in the order of the source.
\* notebook 1 (lines 615-619)
TrainStepCode_nb1UpdatesBeforeLoss ==
    <<"zero_grad", "forward", "step", "loss", "backward">>

TrainStepCode_nb1 == <<"zero_grad", "forward", "loss", "backward", "step">>

\* Lightning's automatic optimization: optimizer.step(closure), where the
\* closure runs training_step (forward, loss), zero_grad and backward
TrainStepCode_lightningKeepsGradients ==
    <<"forward", "loss", "backward", "step">>

TrainStepCode_lightning == <<"forward", "loss", "zero_grad", "backward", "step">>

\* BreastCancerModule.validation_step: forward and loss only
ValidationStepCode_lightningAlsoSteps == <<"forward", "loss", "step">>

ValidationStepCode_lightning == <<"forward", "loss">>

\* the validation step of the notebook-1 epoch loop: the exercise stub is
\* empty, nothing but the accumulation of loss_value.item() runs
ValidationStepCode_nb1 == <<>>

\* the training step of the notebook-1 epoch loop: an empty stub as well
TrainStepCode_nb1_loop == <<>>

TrainMode == [training |-> TRUE, grad_enabled |-> TRUE]

EvalModeStillTraining == [training |-> TRUE, grad_enabled |-> TRUE]

\* model.eval() inside torch.no_grad()
EvalMode == [training |-> FALSE, grad_enabled |-> FALSE]

\* the shape of a batch's features and labels
ShapeOfX(x) == IF Len(x) = 0 THEN <<0>> ELSE <<Len(x), Len(x[1])>>
ShapeOfY(y) == <<Len(y)>>

(***************************************************************************)
(* The statements of a train / validation step.  A step runs the           *)
(* statements of `todo` one by one; the loop around it continues when      *)
(* `todo` is empty.  An exception ends the program.                        *)
(***************************************************************************)
InStep(name) == error = "none" /\ todo # <<>> /\ Head(todo) = name

Advance(name) ==
    /\ todo' = Tail(todo)
    /\ step_log' = Append(step_log, name)

FailAndStay(exception) ==
    /\ error' = exception
    /\ pc' = pc
    /\ todo' = Tail(todo)

Fail(exception) ==
    /\ error' = exception
    /\ pc' = "failed"
    /\ todo' = <<>>

stepFrame == <<dataVars, splitVars, net, call, program, pending, epoch, sums,
               losses, step_kind, step_params>>

\* optimizer.zero_grad(): every .grad is set to None
ZeroGrad ==
    /\ InStep("zero_grad")
    /\ grads' = NoValue
    /\ Advance("zero_grad")
    /\ UNCHANGED <<stepFrame, pc, error, params, optimizer, mode, y_pred,
                   loss_value>>
    /\ UNCHANGED epoch_log
    /\ UNCHANGED runs
    /\ UNCHANGED sweepVars
    /\ UNCHANGED batch_gradient
    /\ UNCHANGED model_id

\* y_pred = model(batch_x)  /  y_hat = self(x), which squeezes as well
ForwardPass ==
    /\ InStep("forward")
    /\ LET r == IF program = "lightning"
                THEN ModuleForward(net, ShapeOfX(batch_x))
                ELSE Forward(net, ShapeOfX(batch_x))
       IN  IF r.status = "ok"
           THEN /\ y_pred' = [shape |-> r.x, params |-> params,
                              tracked |-> mode.grad_enabled,
                              model |-> model_id]
                /\ Advance("forward")
                /\ UNCHANGED <<pc, error>>
           ELSE /\ Fail(r.status)
                /\ UNCHANGED <<y_pred, step_log>>
    /\ UNCHANGED <<stepFrame, params, grads, optimizer, mode, loss_value>>
    /\ UNCHANGED epoch_log
    /\ UNCHANGED runs
    /\ UNCHANGED sweepVars
    /\ UNCHANGED batch_gradient
    /\ UNCHANGED model_id

\* the running step: the epoch, the phase and the number of its batch (0 in
\* the cell of the single training step, which has no epoch loop around it)
StepId ==
    <<epoch, pc, IF epoch_log = <<>> THEN 0 ELSE epoch_log[Len(epoch_log)][2]>>

\* loss_value = loss_function(y_pred.squeeze(), batch_y)
\* loss = self.loss_fn(y_hat, y)
\* The loss carries the step that computed it.
LossComputation ==
    /\ InStep("loss")
    /\ LET input == IF program = "lightning" THEN y_pred.shape
                    ELSE Squeeze(y_pred.shape)
           r == BCEWithLogitsLoss(input, ShapeOfY(batch_y))
       IN  IF r.status = "ok"
           THEN /\ \E v \in LossValues :
                     loss_value' = [item |-> v, params |-> y_pred.params,
                                    tracked |-> y_pred.tracked,
                                    step |-> StepId, model |-> y_pred.model]
                /\ Advance("loss")
                /\ UNCHANGED <<pc, error>>
           ELSE /\ Fail(r.status)
                /\ UNCHANGED <<loss_value, step_log>>
    /\ UNCHANGED <<stepFrame, params, grads, optimizer, mode, y_pred>>
    /\ UNCHANGED epoch_log
    /\ UNCHANGED runs
    /\ UNCHANGED sweepVars
    /\ UNCHANGED batch_gradient
    /\ UNCHANGED model_id

\* loss_value.backward(): the gradient of the loss is added to the .grad of
\* every parameter (a .grad of None counts as zero).  A loss computed without
\* autograd recording cannot be differentiated: RuntimeError.
Backward ==
    /\ InStep("backward")
    /\ IF loss_value.tracked
       THEN /\ \E g \in Gradients(DOMAIN params) :
                 /\ loss_value.item = 0 => g = ZeroGradient(DOMAIN params)
                 /\ grads' = IF grads = NoValue THEN g
                             ELSE [p \in DOMAIN params |-> grads[p] + g[p]]
                 /\ batch_gradient' = g
            /\ Advance("backward")
            /\ UNCHANGED <<pc, error>>
       ELSE /\ Fail("RuntimeError")
            /\ UNCHANGED <<grads, step_log, batch_gradient>>
    /\ UNCHANGED <<stepFrame, params, optimizer, mode, y_pred, loss_value>>
    /\ UNCHANGED epoch_log
    /\ UNCHANGED runs
    /\ UNCHANGED sweepVars
    /\ UNCHANGED model_id

\* optimizer.step(): the update goes to the tensors the optimizer holds; the
\* current model's parameters change only if they are these
OptimizerStep ==
    /\ InStep("step")
    /\ LET r == AdamStep(optimizer, params, grads)
       IN  /\ optimizer' = r.optimizer
           /\ params' = IF optimizer.model = model_id THEN r.params
                        ELSE params
    /\ Advance("step")
    /\ UNCHANGED <<stepFrame, pc, error, grads, mode, y_pred, loss_value>>
    /\ UNCHANGED epoch_log
    /\ UNCHANGED runs
    /\ UNCHANGED sweepVars
    /\ UNCHANGED batch_gradient
    /\ UNCHANGED model_id

\* the next batch of the running pass becomes (batch_x, batch_y) and a step
\* with the statements `code` begins on it
BeginStep(kind, code) ==
    /\ batch_x' = Head(pending).x
    /\ batch_y' = Head(pending).y
    /\ pending' = Tail(pending)
    /\ todo' = code
    /\ step_kind' = kind
    /\ step_log' = <<>>
    /\ step_params' = params
    /\ epoch_log' = Append(epoch_log, <<pc, Head(pending).k>>)
    /\ batch_gradient' = NoValue

AtLoop(position) == error = "none" /\ todo = <<>> /\ pc = position

(***************************************************************************)
(* Spec starts after the data cell: a dataset of n rows of some width,     *)
(* split, both loaders built.                                              *)
(***************************************************************************)
\* the largest dataset Spec starts from
MaxTrainRows == 10

\* every row is the same, so the batches of a pass depend on the sampler's
\* order only through their sizes
TrainTable(n, w) ==
    [features |-> [i \in 1..n |-> [c \in 1..w |-> <<0, 0>>]],
     targets  |-> [i \in 1..n |-> <<0, 0>>]]

Init ==
    /\ \E n \in 1..MaxTrainRows, w \in Widths : table = TrainTable(n, w)
    /\ LET ds == CancerDataset_init(table.features, table.targets)
       IN  features = ds.features /\ targets = ds.targets
    /\ result = NoResult
    /\ LET n == Len(table.features)
           split == random_split(n, Sequential(n))
       IN  data_train = split[1] /\ data_validation = split[2]
    /\ cell = "loaders"
    /\ batch_x = <<>> /\ batch_y = <<>> /\ last_pass = "none"
    /\ NoModel
    /\ program \in {"nb1", "lightning"}
    /\ pc = "setup" /\ todo = <<>>
    /\ params = NoValue /\ grads = NoValue /\ optimizer = NoValue
    /\ mode = NoValue /\ y_pred = NoValue /\ loss_value = NoValue
    /\ pending = <<>> /\ epoch = 0 /\ sums = NoValue /\ losses = NoValue
    /\ error = "none" /\ step_log = <<>> /\ step_kind = "none"
    /\ step_params = NoValue
    /\ epoch_log = <<>>
    /\ runs = 0
    /\ NoSweep
    /\ batch_gradient = NoValue
    /\ model_id = 0

\* one pass over dataloader_train / dataloader_validation
\* shuffle=True: RandomSampler yields an order of range(n); over equal rows
\* two orders stand for all of them
RandomSampler(n) == {Sequential(n), [i \in 1..n |-> n - i]}

\* for ... in dataloader: the batches of a pass, each with its number
Numbered(pass) ==
    [k \in 1..Len(pass) |-> [x |-> pass[k].x, y |-> pass[k].y, k |-> k]]

TrainPasses ==
    { Numbered(LoaderPass(data_train, order)) :
          order \in RandomSampler(Len(data_train)) }

ValidationPassTwice ==
    LET pass == Numbered(LoaderPass(data_validation,
                                    Sequential(Len(data_validation))))
    IN  pass \o pass

ValidationPass ==
    Numbered(LoaderPass(data_validation, Sequential(Len(data_validation))))

(***************************************************************************)
(* Notebook 1                                                              *)
(***************************************************************************)
loopFrame == <<dataVars, splitVars, call, program>>

\* model = BreastCancerClassifier(); loss_function = nn.BCEWithLogitsLoss();
\* optimizer = torch.optim.Adam(model.parameters(), lr=0.0001)
NB1_Setup ==
    /\ program = "nb1" /\ AtLoop("setup")
    /\ net' = BreastCancerClassifier_nb1
    /\ params' = InitialParams(BreastCancerClassifier_nb1)
    /\ grads' = NoValue
    /\ optimizer' = OptimizerOver(model_id + 1,
                               ParamNames(BreastCancerClassifier_nb1), 1)
    /\ mode' = TrainMode
    /\ pc' = "step_cell"
    /\ UNCHANGED <<dataVars, splitVars, call, program, todo, y_pred,
                   loss_value, pending, epoch, sums, losses, error, step_log,
                   step_kind, step_params>>
    /\ UNCHANGED epoch_log
    /\ UNCHANGED runs
    /\ UNCHANGED sweepVars
    /\ UNCHANGED batch_gradient
    /\ model_id' = model_id + 1

\* for batch_x, batch_y in cancer_dataloader: <one training step>; break
\* cancer_dataloader shuffles the whole dataset
NB1_StepCell ==
    /\ program = "nb1" /\ AtLoop("step_cell")
    /\ \E order \in RandomSampler(Len(features)) :
          LET first == LoaderPass(Sequential(Len(features)), order)[1]
          IN  batch_x' = first.x /\ batch_y' = first.y
    /\ todo' = TrainStepCode_nb1
    /\ step_kind' = "train"
    /\ step_log' = <<>>
    /\ step_params' = params
    /\ pc' = "train_cell"
    /\ UNCHANGED <<dataVars, cell, data_train, data_validation, last_pass,
                   net, call, program, params, grads, optimizer, mode, y_pred,
                   loss_value, pending, epoch, sums, losses, error>>
    /\ UNCHANGED epoch_log
    /\ UNCHANGED runs
    /\ UNCHANGED sweepVars
    /\ batch_gradient' = NoValue
    /\ UNCHANGED model_id

\* model = BreastCancerClassifier(); optimizer = Adam(..., lr=0.001);
\* n_epochs = 10; train_losses = []; validation_losses = []
NB1_TrainCell ==
    /\ program = "nb1" /\ AtLoop("train_cell")
    /\ net' = BreastCancerClassifier_nb1
    /\ params' = InitialParams(BreastCancerClassifier_nb1)
    /\ grads' = NoValue
    /\ optimizer' = OptimizerOver(model_id + 1,
                               ParamNames(BreastCancerClassifier_nb1), 10)
    /\ mode' = TrainMode
    /\ epoch' = 0
    /\ losses' = [train |-> <<>>, validation |-> <<>>]
    /\ sums' = [train |-> 0, validation |-> 0]
    /\ pc' = "epoch"
    /\ UNCHANGED <<loopFrame, todo, y_pred, loss_value, pending, error,
                   step_log, step_kind, step_params>>
    /\ epoch_log' = <<>>
    /\ runs' = 1
    /\ UNCHANGED sweepVars
    /\ UNCHANGED batch_gradient
    /\ model_id' = model_id + 1

\* for epoch in range(1, n_epochs + 1): model.train(); epoch_loss_train = 0
NB1_Epoch ==
    /\ program = "nb1" /\ AtLoop("epoch")
    /\ IF epoch = n_epochs
       THEN /\ pc' = "done"
            /\ UNCHANGED <<epoch, mode, sums, pending, epoch_log>>
       ELSE /\ epoch' = epoch + 1
            /\ mode' = TrainMode
            /\ sums' = [sums EXCEPT !.train = 0]
            /\ pending' \in TrainPasses
            /\ epoch_log' = <<>>
            /\ pc' = "train"
    /\ UNCHANGED <<loopFrame, net, todo, params, grads, optimizer, y_pred,
                   loss_value, losses, error, step_log, step_kind, step_params>>
    /\ UNCHANGED runs
    /\ UNCHANGED sweepVars
    /\ UNCHANGED batch_gradient
    /\ UNCHANGED model_id

\* for batch_x, batch_y in dataloader_train:
\*     <empty training step>
\*     epoch_loss_train += loss_value.item()
NB1_TrainBatch ==
    /\ program = "nb1" /\ AtLoop("train") /\ pending # <<>>
    /\ BeginStep("train", TrainStepCode_nb1_loop)
    /\ IF loss_value = NoValue
       THEN error' = "NameError" /\ pc' = "failed" /\ UNCHANGED sums
       ELSE /\ sums' = [sums EXCEPT !.train = @ + loss_value.item]
            /\ UNCHANGED <<pc, error>>
    /\ UNCHANGED <<dataVars, cell, data_train, data_validation, last_pass,
                   net, call, program, params, grads, optimizer, mode, y_pred,
                   loss_value, epoch, losses>>
    /\ UNCHANGED runs
    /\ UNCHANGED sweepVars
    /\ UNCHANGED model_id

\* total / len(dataloader): Python's true division, kept as the pair of its
\* operands; a zero divisor raises ZeroDivisionError
DivideOrZero(total, count) ==
    [status |-> "ok", value |-> IF count = 0 THEN <<0, 1>> ELSE <<total, count>>]

Divide(total, count) ==
    IF count = 0 THEN [status |-> "ZeroDivisionError", value |-> NoValue]
    ELSE [status |-> "ok", value |-> <<total, count>>]

\* avg_epoch_loss_train = epoch_loss_train / len(dataloader_train);
\* train_losses.append(avg_epoch_loss_train)
\* model.eval(); epoch_loss_validation = 0; with torch.no_grad():
NB1_TrainEnd ==
    /\ program = "nb1" /\ AtLoop("train") /\ pending = <<>>
    /\ LET batches == Len(Chunks(Sequential(Len(data_train)), batch_size))
           avg == Divide(sums.train, batches)
       IN  IF avg.status # "ok"
           THEN /\ error' = avg.status /\ pc' = "failed"
                /\ UNCHANGED <<losses, mode, sums, pending>>
           ELSE /\ losses' = [losses EXCEPT !.train = Append(@, avg.value)]
                /\ mode' = EvalMode
                /\ sums' = [sums EXCEPT !.validation = 0]
                /\ pending' = ValidationPass
                /\ pc' = "validation"
                /\ UNCHANGED error
    /\ UNCHANGED <<loopFrame, net, todo, params, grads, optimizer, y_pred,
                   loss_value, epoch, step_log, step_kind, step_params>>
    /\ UNCHANGED epoch_log
    /\ UNCHANGED runs
    /\ UNCHANGED sweepVars
    /\ UNCHANGED batch_gradient
    /\ UNCHANGED model_id

\* for batch_x, batch_y in dataloader_validation:
\*     <empty validation step>
\*     epoch_loss_validation += loss_value.item()
NB1_ValidationBatch ==
    /\ program = "nb1" /\ AtLoop("validation") /\ pending # <<>>
    /\ BeginStep("validation", ValidationStepCode_nb1)
    /\ IF loss_value = NoValue
       THEN error' = "NameError" /\ pc' = "failed" /\ UNCHANGED sums
       ELSE /\ sums' = [sums EXCEPT !.validation = @ + loss_value.item]
            /\ UNCHANGED <<pc, error>>
    /\ UNCHANGED <<dataVars, cell, data_train, data_validation, last_pass,
                   net, call, program, params, grads, optimizer, mode, y_pred,
                   loss_value, epoch, losses>>
    /\ UNCHANGED runs
    /\ UNCHANGED sweepVars
    /\ UNCHANGED model_id

\* avg_epoch_loss_validation = epoch_loss_validation / len(dataloader_validation)
\* validation_losses.append(avg_epoch_loss_validation); print(...)
NB1_ValidationEnd ==
    /\ program = "nb1" /\ AtLoop("validation") /\ pending = <<>>
    /\ LET batches == Len(Chunks(Sequential(Len(data_validation)), batch_size))
           avg == Divide(sums.validation, batches)
       IN  IF avg.status # "ok"
           THEN /\ error' = avg.status /\ pc' = "failed"
                /\ UNCHANGED <<losses, mode>>
           ELSE /\ losses' = [losses EXCEPT !.validation = Append(@, avg.value)]
                /\ mode' = [training |-> FALSE, grad_enabled |-> TRUE]
                /\ pc' = "epoch"
                /\ UNCHANGED error
    /\ UNCHANGED <<loopFrame, net, todo, params, grads, optimizer, y_pred,
                   loss_value, pending, epoch, sums, step_log, step_kind,
                   step_params>>
    /\ UNCHANGED epoch_log
    /\ UNCHANGED runs
    /\ UNCHANGED sweepVars
    /\ UNCHANGED batch_gradient
    /\ UNCHANGED model_id

\* The cell of the epoch loop is run once more after it failed with the
\* division by zero: all of its statements run again from the first.
MaxRuns == 2

NB1_RunCellAgain ==
    /\ program = "nb1" /\ pc = "failed" /\ error = "ZeroDivisionError"
    /\ runs >= 1 /\ runs < MaxRuns
    /\ runs' = runs + 1
    /\ error' = "none"
    /\ net' = BreastCancerClassifier_nb1
    /\ params' = InitialParams(BreastCancerClassifier_nb1)
    /\ grads' = NoValue
    /\ optimizer' = OptimizerOver(model_id + 1,
                               ParamNames(BreastCancerClassifier_nb1), 10)
    /\ mode' = TrainMode
    /\ epoch' = 0
    /\ losses' = [train |-> <<>>, validation |-> <<>>]
    /\ sums' = [train |-> 0, validation |-> 0]
    /\ epoch_log' = <<>>
    /\ pc' = "epoch"
    /\ UNCHANGED <<loopFrame, todo, y_pred, loss_value, pending, step_log,
                   step_kind, step_params>>
    /\ UNCHANGED sweepVars
    /\ UNCHANGED batch_gradient
    /\ model_id' = model_id + 1

(***************************************************************************)
(* Notebook 2: trainer.fit(module, dataloader_train, dataloader_validation)*)
(***************************************************************************)
\* the sub-sequence of the first k elements
Take(s, k) == SubSeq(s, 1, IF Len(s) < k THEN Len(s) ELSE k)

\* BreastCancerModule(): self.model = BreastCancerClassifier() of the first
\* definition, or of the configurable one with sweep()'s default arguments;
\* configure_optimizers: Adam(self.parameters(), lr=0.001).  fit starts with
\* the sanity check: num_sanity_val_steps validation batches.
L_Setup ==
    /\ program = "lightning" /\ AtLoop("setup")
    /\ net' \in {BreastCancerClassifier_nb2,
                 BreastCancerClassifier_sweep(Default_hidden_layers,
                                              Default_hidden_neurons)}
    /\ params' = InitialParams(net')
    /\ grads' = NoValue
    /\ optimizer' = OptimizerOver(model_id + 1, ParamNames(net'), 10)
    /\ mode' = EvalMode
    /\ pending' = Take(ValidationPass, num_sanity_val_steps)
    /\ epoch' = 0
    /\ pc' = "sanity"
    /\ UNCHANGED <<loopFrame, todo, y_pred, loss_value, sums, losses, error,
                   step_log, step_kind, step_params>>
    /\ UNCHANGED epoch_log
    /\ UNCHANGED runs
    /\ UNCHANGED sweepVars
    /\ UNCHANGED batch_gradient
    /\ model_id' = model_id + 1

\* validation_step(batch, batch_idx) on the next validation batch
L_ValidationBatch ==
    /\ program = "lightning"
    /\ AtLoop("sanity") \/ AtLoop("validation")
    /\ pending # <<>>
    /\ BeginStep("validation", ValidationStepCode_lightning)
    /\ UNCHANGED <<dataVars, cell, data_train, data_validation, last_pass,
                   net, call, program, pc, params, grads, optimizer, mode,
                   y_pred, loss_value, epoch, sums, losses, error>>
    /\ UNCHANGED runs
    /\ UNCHANGED sweepVars
    /\ UNCHANGED model_id

\* end of the sanity check
L_SanityEnd ==
    /\ program = "lightning" /\ AtLoop("sanity") /\ pending = <<>>
    /\ mode' = TrainMode
    /\ pc' = "epoch"
    /\ UNCHANGED <<loopFrame, net, todo, params, grads, optimizer, y_pred,
                   loss_value, pending, epoch, sums, losses, error, step_log,
                   step_kind, step_params>>
    /\ UNCHANGED epoch_log
    /\ UNCHANGED runs
    /\ UNCHANGED sweepVars
    /\ UNCHANGED batch_gradient
    /\ UNCHANGED model_id

\* the fit loop: stop at max_epochs, otherwise one more training epoch
L_Epoch ==
    /\ program = "lightning" /\ AtLoop("epoch")
    /\ IF epoch = max_epochs
       THEN /\ pc' = "done"
            /\ UNCHANGED <<mode, pending, epoch_log>>
       ELSE /\ mode' = TrainMode
            /\ pending' \in TrainPasses
            /\ epoch_log' = <<>>
            /\ pc' = "train"
    /\ UNCHANGED <<loopFrame, net, todo, params, grads, optimizer, y_pred,
                   loss_value, epoch, sums, losses, error, step_log,
                   step_kind, step_params>>
    /\ UNCHANGED runs
    /\ UNCHANGED sweepVars
    /\ UNCHANGED batch_gradient
    /\ UNCHANGED model_id

\* training_step(batch, batch_idx) on the next training batch, followed by
\* the optimizer statements of automatic optimization
L_TrainBatch ==
    /\ program = "lightning" /\ AtLoop("train") /\ pending # <<>>
    /\ BeginStep("train", TrainStepCode_lightning)
    /\ UNCHANGED <<dataVars, cell, data_train, data_validation, last_pass,
                   net, call, program, pc, params, grads, optimizer, mode,
                   y_pred, loss_value, epoch, sums, losses, error>>
    /\ UNCHANGED runs
    /\ UNCHANGED sweepVars
    /\ UNCHANGED model_id

\* the validation loop at the end of the training epoch
L_TrainEnd ==
    /\ program = "lightning" /\ AtLoop("train") /\ pending = <<>>
    /\ mode' = EvalMode
    /\ pending' = ValidationPass
    /\ pc' = "validation"
    /\ UNCHANGED <<loopFrame, net, todo, params, grads, optimizer, y_pred,
                   loss_value, epoch, sums, losses, error, step_log,
                   step_kind, step_params>>
    /\ UNCHANGED epoch_log
    /\ UNCHANGED runs
    /\ UNCHANGED sweepVars
    /\ UNCHANGED batch_gradient
    /\ UNCHANGED model_id

L_ValidationEnd ==
    /\ program = "lightning" /\ AtLoop("validation") /\ pending = <<>>
    /\ mode' = TrainMode
    /\ epoch' = epoch + 1
    /\ pc' = "epoch"
    /\ UNCHANGED <<loopFrame, net, todo, params, grads, optimizer, y_pred,
                   loss_value, pending, sums, losses, error, step_log,
                   step_kind, step_params>>
    /\ UNCHANGED epoch_log
    /\ UNCHANGED runs
    /\ UNCHANGED sweepVars
    /\ UNCHANGED batch_gradient
    /\ UNCHANGED model_id

Next ==
    \/ ZeroGrad \/ ForwardPass \/ LossComputation \/ Backward \/ OptimizerStep
    \/ NB1_Setup \/ NB1_StepCell \/ NB1_TrainCell \/ NB1_Epoch
    \/ NB1_TrainBatch \/ NB1_TrainEnd \/ NB1_ValidationBatch
    \/ NB1_ValidationEnd \/ NB1_RunCellAgain
    \/ L_Setup \/ L_ValidationBatch \/ L_SanityEnd \/ L_Epoch \/ L_TrainBatch
    \/ L_TrainEnd \/ L_ValidationEnd

Spec == Init /\ [][Next]_vars

(***************************************************************************)
(* Properties of the train and validation steps                            *)
(***************************************************************************)
Range(s) == { s[k] : k \in 1..Len(s) }

\* the training step of the notebook-1 cell "a single training step"
TrainStepOfCell == program = "nb1" /\ pc = "train_cell" /\ step_kind = "train"

\* BreastCancerModule.training_step under the Trainer
TrainStepOfModule == program = "lightning" /\ step_kind = "train"

\* the batch of the current step has feature vectors of another width than the
\* first layer takes
WrongWidth == batch_x # <<>> /\ Len(batch_x[1]) # in_features

\* the current step has not yet come to its forward pass
ForwardDue == todo # <<>> /\ "forward" \in Range(todo)

\* C5: a train or validation step on a batch whose feature vectors do not
\* have the model's input width fails in the forward pass with the shape
\* error (RuntimeError of nn.Linear); no logits and no loss are produced and
\* the parameters are the ones from before the step.
C5_WrongWidthFailsAndKeepsParams ==
    (step_kind # "none" /\ WrongWidth /\ ~ForwardDue) =>
        /\ error = "RuntimeError" /\ pc = "failed"
        /\ "forward" \notin Range(step_log)
        /\ y_pred = NoValue /\ loss_value = NoValue
        /\ params = step_params

C5_Witness ==
    /\ step_kind = "validation" /\ WrongWidth /\ error = "RuntimeError"
    /\ params = step_params /\ params # NoValue

\* C8: a validation step never changes a parameter: during and after every
\* validation step (notebook-1 validation phase, validation_step of the
\* module) the parameters equal those at the start of the step, and no
\* transition taken in a validation phase changes them.
C8_ValidationKeepsParams ==
    /\ [](step_kind = "validation" => params = step_params)
    /\ [][(pc \in {"sanity", "validation"}) => UNCHANGED params]_vars

C8_Witness ==
    /\ program = "lightning" /\ pc = "validation" /\ step_kind = "validation"
    /\ todo = <<>> /\ error = "none" /\ step_log = <<"forward", "loss">>
    /\ optimizer.step > 0 /\ params # InitialParams(net)
    /\ params = step_params

\* a training step has run to its end
Updated ==
    /\ TrainStepOfCell \/ TrainStepOfModule
    /\ todo = <<>> /\ error = "none"
    /\ step_log # <<>> /\ step_log[Len(step_log)] = "step"

GradientNonZero == grads # NoValue /\ \E p \in DOMAIN grads : grads[p] # 0

Changed == { p \in DOMAIN params : params[p] # step_params[p] }

\* C9 as stated: at every train step at least one parameter changes when the
\* gradient is non-zero, and none changes when the loss is exactly zero.
C9_Original ==
    Updated => /\ GradientNonZero => Changed # {}
               /\ loss_value.item = 0 => Changed = {}

\* C9, amended: a train step with Adam changes exactly the parameters whose
\* first-moment estimate after the step is non-zero.  At the first step of an
\* optimizer that is: at least one parameter changes when the gradient is
\* non-zero and none when it is zero.
C9_AdamFollowsFirstMoment ==
    Updated =>
        /\ Changed = { p \in DOMAIN params : optimizer.exp_avg[p] # 0 }
        /\ optimizer.step = 1 => (Changed # {} <=> GradientNonZero)

C9_Witness ==
    /\ Updated /\ optimizer.step >= 2
    /\ loss_value.item = 0 /\ ~GradientNonZero
    /\ Changed # {}

\* C10: a train step runs forward pass, loss computation, backward pass and
\* optimizer update in this order, each once; the loss is computed from the
\* parameters of before the update, which stay until the update.
SubSteps == SelectSeq(step_log, LAMBDA a : a # "zero_grad")

IsPrefix(s, t) == Len(s) <= Len(t) /\ s = SubSeq(t, 1, Len(s))

TrainBatchCount == Len(Chunks(Sequential(Len(data_train)), batch_size))

ValidationBatchCount == Len(Chunks(Sequential(Len(data_validation)), batch_size))

\* batches 1..n of one phase, in the order of the loader
Entries(phase, n) == [k \in 1..n |-> <<phase, k>>]

\* the batches taken in the epoch itself (without those of the sanity check)
EpochBatches == SelectSeq(epoch_log, LAMBDA e : e[1] # "sanity")

EpochComplete ==
    EpochBatches = Entries("train", TrainBatchCount)
                   \o Entries("validation", ValidationBatchCount)

\* C11: in every epoch the train batches are taken one by one, each once, in
\* the order of the loader, then the validation batches likewise; a
\* validation batch is taken only after all train batches of the epoch, and
\* the next epoch starts only after all validation batches of this one.
C11_EpochOrder ==
    /\ \E j \in 0..TrainBatchCount, i \in 0..ValidationBatchCount :
          /\ EpochBatches = Entries("train", j) \o Entries("validation", i)
          /\ (i > 0 \/ pc = "validation") => j = TrainBatchCount
    /\ (pc \in {"epoch", "done"} /\ EpochBatches # <<>>) => EpochComplete

C11_Witness ==
    /\ program = "nb1" /\ pc = "epoch" /\ epoch >= 2 /\ EpochComplete
    /\ TrainBatchCount >= 2 /\ ValidationBatchCount >= 1

\* a batch of the running phase of the notebook-1 epoch loop has been taken
\* and its loss_value.item() added to the accumulator of the phase
Accumulated ==
    /\ program = "nb1" /\ pc \in {"train", "validation"} /\ error = "none"
    /\ epoch_log # <<>> /\ epoch_log[Len(epoch_log)][1] = pc

\* C12 as stated: what an epoch adds to its accumulators are the losses of
\* that epoch's own steps, so the average is their sum divided by the number
\* of batches and no loss from outside the epoch enters it.
C12_Original == Accumulated => loss_value.step = StepId

\* the notebook-1 epoch loop runs with a validation loader of no batch
EmptyValidation == program = "nb1" /\ runs >= 1 /\ ValidationBatchCount = 0

\* C13: with an empty validation batch collection the epoch loop fails in its
\* first epoch with the division by zero (the empty-batch condition): no
\* validation average is ever recorded, no epoch completes, and when the cell
\* is run a second time it fails the same way.
C13_EmptyValidationFails ==
    /\ [](EmptyValidation =>
            /\ pc # "done" /\ (pc = "epoch" => epoch = 0)
            /\ losses.validation = <<>>
            /\ pc = "failed" => error = "ZeroDivisionError")
    /\ [][(EmptyValidation /\ pc = "validation")
            => (error' = "ZeroDivisionError" /\ UNCHANGED losses)]_vars

C13_Witness ==
    /\ EmptyValidation /\ runs = 2 /\ epoch = 1
    /\ pc = "failed" /\ error = "ZeroDivisionError"
    /\ Len(losses.train) = 1

InTrainMode == mode.training /\ mode.grad_enabled

InEvalMode == ~mode.training /\ ~mode.grad_enabled

\* C14: the mode is set before each phase: throughout a train phase and in
\* every train step the model is in training mode with autograd recording,
\* throughout a validation phase and in every validation step it is in
\* evaluation mode with autograd off, so its logits carry no gradient graph.
C14_ModePerPhase ==
    /\ pc = "train" => InTrainMode
    /\ pc \in {"sanity", "validation"} => InEvalMode
    /\ (todo # <<>> /\ step_kind = "train") => InTrainMode
    /\ (todo # <<>> /\ step_kind = "validation") => InEvalMode
    /\ (step_kind = "validation" /\ "forward" \in Range(step_log))
          => ~y_pred.tracked

C14_Witness ==
    /\ program = "nb1" /\ pc = "validation" /\ epoch = 2
    /\ step_kind = "validation" /\ InEvalMode
    /\ epoch_log # <<>> /\ epoch_log[Len(epoch_log)][1] = "validation"

(***************************************************************************)
(* Properties of the batch loaders (SpecSplit)                             *)
(***************************************************************************)
\* the sample that position j of a pass must hold when the sampler yields
\* `order`: the dataset row of the subset's entry order[j]
Expected(indices, order, j) ==
    CancerDataset_getitem(features, targets, indices[order[j] + 1]).value

\* one pass over a loader of the subset `indices` in sampler order `order`:
\* ceil(n / b) batches, all of b samples except possibly the last, holding
\* the samples of the subset in sampler order, each entry of the subset once
PassIsComplete(indices, order) ==
    LET n == Len(indices)
        pass == LoaderPass(indices, order)
        count == (n + batch_size - 1) \div batch_size
    IN  /\ Len(pass) = count
        /\ \A k \in 1..Len(pass) :
              /\ Len(pass[k].x) = Len(pass[k].y)
              /\ Len(pass[k].x) >= 1 /\ Len(pass[k].x) <= batch_size
              /\ k < Len(pass) => Len(pass[k].x) = batch_size
        /\ \A j \in 1..n :
              LET k == ((j - 1) \div batch_size) + 1
                  o == ((j - 1) % batch_size) + 1
              IN  /\ k <= Len(pass) /\ o <= Len(pass[k].x)
                  /\ <<pass[k].x[o], pass[k].y[o]>> = Expected(indices, order, j)
        /\ Len(order) = n /\ { order[j] : j \in 1..n } = 0..(n - 1)
        /\ n = 1 => (Len(pass) = 1 /\ Len(pass[1].x) = 1)

\* C15: every pass over either loader is complete in this sense: for the
\* train loader whatever order the sampler draws for the pass, for the
\* validation loader in the one sequential order; what a pass leaves in the
\* loop variables is the last batch of such a pass.
C15_PassesAreComplete ==
    cell = "loaders" =>
        /\ \A order \in randperm(Len(data_train)) :
              PassIsComplete(data_train, order)
        /\ PassIsComplete(data_validation, Sequential(Len(data_validation)))
        /\ last_pass = "train" =>
              \E order \in randperm(Len(data_train)) :
                 LET pass == LoaderPass(data_train, order)
                 IN  batch_x = pass[Len(pass)].x /\ batch_y = pass[Len(pass)].y
        /\ (last_pass = "validation" /\ Len(data_validation) > 0) =>
              LET pass == LoaderPass(data_validation,
                                     Sequential(Len(data_validation)))
              IN  batch_x = pass[Len(pass)].x /\ batch_y = pass[Len(pass)].y

C15_Witness ==
    /\ cell = "loaders" /\ last_pass = "train"
    /\ Len(data_train) = batch_size + 1 /\ Len(batch_x) = 1

(***************************************************************************)
(* SpecSweep: the cells of notebook 2 from the first trainer.fit on: the   *)
(* fit under the default logger, wandb.init, the fit under the WandbLogger *)
(* with wandb.finish(), and wandb.agent(sweep_id, function=sweep,          *)
(* count=20).  The agent asks the controller for the next configuration,   *)
(* puts it into the run's wandb.config and calls function() without        *)
(* arguments; sweep() builds a Trainer and a BreastCancerModule, fits it   *)
(* and finishes the run.  Inside a fit only its progress through its loops *)
(* is kept.                                                                *)
(***************************************************************************)
\* wandb.agent(..., count=20)
agent_count == 20

\* the agent loop is followed for at most this many trials
MaxTrials == 21

\* learning_rate=0.001, the default of BreastCancerModule.__init__, in units
\* of 0.0001
Default_learning_rate == 10

\* "learning_rate": {"min": 0.0001, "max": 0.01}: the two ends and the
\* default value between them, in units of 0.0001
learning_rate_values == {1, 10, 100}

\* method "random": the controller samples each parameter from its values
SweepConfigurations ==
    [hidden_layers : hidden_layers_values,
     hidden_neurons : hidden_neurons_values,
     learning_rate : learning_rate_values]

\* what the agent calls function with: self._function(), no argument
AgentCall == [args |-> <<>>, kwargs |-> <<>>]

\* binding of a parameter of __init__(self, learning_rate=0.001,
\* hidden_layers=1, hidden_neurons=10) from a call
Bind(c, position, name, default) ==
    IF Len(c.args) >= position THEN c.args[position]
    ELSE IF name \in DOMAIN c.kwargs THEN c.kwargs[name]
    ELSE default

\* BreastCancerModule(*args, **kwargs)
BreastCancerModule_init(c) ==
    LET learning_rate == Bind(c, 1, "learning_rate", Default_learning_rate)
        hidden_layers == Bind(c, 2, "hidden_layers", Default_hidden_layers)
        hidden_neurons == Bind(c, 3, "hidden_neurons", Default_hidden_neurons)
    IN  [hparams |-> [learning_rate |-> learning_rate,
                      hidden_layers |-> hidden_layers,
                      hidden_neurons |-> hidden_neurons],
         model |-> BreastCancerClassifier_sweep(hidden_layers, hidden_neurons),
         params |-> InitialParams(BreastCancerClassifier_sweep(hidden_layers,
                                                               hidden_neurons)),
         learning_rate |-> learning_rate,
         optimizer |-> NoValue]

\* configure_optimizers: self.optimizer(self.parameters(), lr=self.learning_rate)
configure_optimizers(m) ==
    [m EXCEPT !.optimizer = Adam(ParamNames(m.model), m.learning_rate)]

\* count=None never stops the agent
AgentContinuesForever(n) == TRUE

\* the agent's loop condition: fewer than count runs so far
AgentContinues(n) == n < agent_count

\* wandb.init(...) when k runs were started before: a new run in progress,
\* nothing logged to it yet
wandb_init(k) == [id |-> k + 1, state |-> "running", logged |-> 0]

\* wandb.run is not None: there is a run in progress
RunInProgress(run) == run # NoValue /\ run.state = "running"

\* WandbLogger(...).experiment, read when fit starts: the run in progress if
\* there is one, else the run of a call of wandb.init
WandbLogger_experiment(run) ==
    IF RunInProgress(run) THEN run
    ELSE wandb_init(IF run = NoValue THEN 0 ELSE run.id)

\* self.log('train_loss', ...) / self.log('val_loss', ...) under a Trainer
\* with the WandbLogger: log is called on the logger's run
wandb_log(run) == [run EXCEPT !.logged = @ + 1]

\* a finish that leaves the run in progress
wandb_finishLeavesRunning(run) == run

\* wandb.finish(): the run in progress, if any, is finished
wandb_finish(run) ==
    IF RunInProgress(run) THEN [run EXCEPT !.state = "finished"] ELSE run

\* BreastCancerModule(learning_rate=0.001), the call of the two fit cells
CellCall == [args |-> <<>>, kwargs |-> [learning_rate |-> Default_learning_rate]]

\* BreastCancerModule(...) of the first definition, the one the two fit
\* cells use: __init__(self, learning_rate=0.001) with
\* self.model = BreastCancerClassifier() of notebook 2's first classifier
BreastCancerModule_init_first(c) ==
    LET learning_rate == Bind(c, 1, "learning_rate", Default_learning_rate)
    IN  [hparams |-> [learning_rate |-> learning_rate],
         model |-> BreastCancerClassifier_nb2,
         params |-> InitialParams(BreastCancerClassifier_nb2),
         learning_rate |-> learning_rate,
         optimizer |-> NoValue]

\* what loss.backward() leaves in the .grad of the parameters in a training
\* batch of a fit: the fits take the same non-zero gradient for every batch
BatchGradient(names) == [p \in names |-> 10]

\* one training batch of fit under automatic optimization: training_step,
\* then zero_grad, backward and the step of the module's optimizer on the
\* module's parameters
FitTrainingBatch(m) ==
    LET r == AdamStep(m.optimizer, m.params, BatchGradient(ParamNames(m.model)))
    IN  [m EXCEPT !.optimizer = r.optimizer, !.params = r.params]

\* trainer.fit(...) up to the sanity check, under the Trainer's logger
FitStart(logger) ==
    [epoch |-> 0, phase |-> "sanity", logger |-> logger,
     left |-> Len(Take(ValidationPass, num_sanity_val_steps))]

sweepFrame == <<dataVars, splitVars, modelVars, program, pc, todo, params,
                grads, optimizer, mode, y_pred, loss_value, pending, epoch,
                sums, losses, error, step_log, step_kind, step_params,
                epoch_log, runs, batch_gradient, model_id>>

\* the notebook's loaders over the largest dataset; the cells of notebook 2
\* from the first trainer.fit on are run in their order
InitSweep ==
    /\ table = TrainTable(MaxTrainRows, in_features)
    /\ LET ds == CancerDataset_init(table.features, table.targets)
       IN  features = ds.features /\ targets = ds.targets
    /\ result = NoResult
    /\ LET n == Len(table.features)
           split == random_split(n, Sequential(n))
       IN  data_train = split[1] /\ data_validation = split[2]
    /\ cell = "loaders"
    /\ batch_x = <<>> /\ batch_y = <<>> /\ last_pass = "none"
    /\ NoModel
    /\ program = "none" /\ pc = "none" /\ todo = <<>>
    /\ params = NoValue /\ grads = NoValue /\ optimizer = NoValue
    /\ mode = NoValue /\ y_pred = NoValue /\ loss_value = NoValue
    /\ pending = <<>> /\ epoch = 0 /\ sums = NoValue /\ losses = NoValue
    /\ error = "none" /\ step_log = <<>> /\ step_kind = "none"
    /\ step_params = NoValue /\ epoch_log = <<>> /\ runs = 0
    /\ batch_gradient = NoValue /\ model_id = 0
    /\ sweep_pc = "cell_fit" /\ trial = 0 /\ config = NoValue
    /\ module = NoValue /\ fit = NoValue /\ wandb_run = NoValue

\* trainer = L.Trainer(max_epochs=10, accelerator="auto") with the default
\* logger; trainer.fit(BreastCancerModule(learning_rate=0.001), ...)
CellFit ==
    /\ sweep_pc = "cell_fit"
    /\ module' = configure_optimizers(BreastCancerModule_init_first(CellCall))
    /\ fit' = FitStart("default")
    /\ sweep_pc' = "fit"
    /\ UNCHANGED <<sweepFrame, trial, config, wandb_run>>

\* import wandb; wandb.init(project="breast-cancer-classification")
WandbInit ==
    /\ sweep_pc = "wandb_init"
    /\ wandb_run' = wandb_init(IF wandb_run = NoValue THEN 0 ELSE wandb_run.id)
    /\ sweep_pc' = "cell_tracked"
    /\ UNCHANGED <<sweepFrame, trial, config, module, fit>>

\* trainer = L.Trainer(..., logger=WandbLogger(...));
\* trainer.fit(BreastCancerModule(learning_rate=0.001), ...)
CellTracked ==
    /\ sweep_pc = "cell_tracked"
    /\ module' = configure_optimizers(BreastCancerModule_init_first(CellCall))
    /\ wandb_run' = WandbLogger_experiment(wandb_run)
    /\ fit' = FitStart("wandb")
    /\ sweep_pc' = "fit"
    /\ UNCHANGED <<sweepFrame, trial, config>>

\* wandb.finish()  # Finish the wandb run; the next cell that runs code is
\* wandb.agent(...)
CellFinish ==
    /\ sweep_pc = "finish" /\ trial = 0
    /\ wandb_run' = wandb_finish(wandb_run)
    /\ sweep_pc' = "agent"
    /\ UNCHANGED <<sweepFrame, trial, config, module, fit>>

\* the agent takes the next configuration from the controller and calls
\* function()
AgentNextTrial ==
    /\ sweep_pc = "agent" /\ AgentContinues(trial) /\ trial < MaxTrials
    /\ config' \in SweepConfigurations
    /\ trial' = trial + 1
    /\ sweep_pc' = "sweep"
    /\ UNCHANGED <<sweepFrame, module, fit, wandb_run>>

\* a sweep() that fits the module of the fit before it again
SweepBuildKeepsModule ==
    /\ sweep_pc = "sweep"
    /\ module' = module
    /\ wandb_run' = WandbLogger_experiment(wandb_run)
    /\ fit' = FitStart("wandb")
    /\ sweep_pc' = "fit"
    /\ UNCHANGED <<sweepFrame, trial, config>>

\* sweep(): trainer = L.Trainer(max_epochs=10, ..., logger=WandbLogger(...));
\* trainer.fit(BreastCancerModule(*args, **kwargs), ...) up to the sanity check
SweepBuild ==
    /\ sweep_pc = "sweep"
    /\ module' = configure_optimizers(BreastCancerModule_init(AgentCall))
    /\ wandb_run' = WandbLogger_experiment(wandb_run)
    /\ fit' = FitStart("wandb")
    /\ sweep_pc' = "fit"
    /\ UNCHANGED <<sweepFrame, trial, config>>

\* one batch of the running loop of fit: training_step or validation_step,
\* whose self.log goes to the run of the WandbLogger; the batches of the
\* sanity check are not logged.  A training batch ends with the optimizer's
\* step.
FitBatch ==
    /\ sweep_pc = "fit" /\ fit.left > 0
    /\ fit' = [fit EXCEPT !.left = @ - 1]
    /\ wandb_run' = IF fit.logger = "wandb" /\ fit.phase # "sanity"
                    THEN wandb_log(wandb_run) ELSE wandb_run
    /\ module' = IF fit.phase = "train" THEN FitTrainingBatch(module)
                  ELSE module
    /\ UNCHANGED <<sweepFrame, sweep_pc, trial, config>>

\* the running loop of fit is through its batches: after the sanity check
\* and after every validation loop the next training epoch starts unless
\* max_epochs are done; after the training batches the validation loop.
\* When fit returns, the next statement is wandb.finish(), and after the
\* first fit cell the cell of wandb.init.
FitLoopEnd ==
    /\ sweep_pc = "fit" /\ fit.left = 0
    /\ LET after == IF fit.phase = "validation" THEN fit.epoch + 1
                    ELSE fit.epoch
       IN  IF fit.phase = "train"
           THEN /\ fit' = [fit EXCEPT !.phase = "validation",
                                      !.left = ValidationBatchCount]
                /\ UNCHANGED sweep_pc
           ELSE IF after = max_epochs
           THEN /\ fit' = [fit EXCEPT !.epoch = after, !.phase = "done"]
                /\ sweep_pc' = IF fit.logger = "wandb" THEN "finish"
                               ELSE "wandb_init"
           ELSE /\ fit' = [fit EXCEPT !.epoch = after, !.phase = "train",
                                      !.left = TrainBatchCount]
                /\ UNCHANGED sweep_pc
    /\ UNCHANGED <<sweepFrame, trial, config, module, wandb_run>>

\* wandb.finish(); sweep() returns to the agent
SweepFinish ==
    /\ sweep_pc = "finish" /\ trial > 0
    /\ wandb_run' = wandb_finish(wandb_run)
    /\ sweep_pc' = "agent"
    /\ UNCHANGED <<sweepFrame, trial, config, module, fit>>

\* the agent has performed count runs and returns
AgentStop ==
    /\ sweep_pc = "agent" /\ ~AgentContinues(trial)
    /\ sweep_pc' = "stopped"
    /\ UNCHANGED <<sweepFrame, trial, config, module, fit, wandb_run>>

NextSweep ==
    \/ CellFit \/ WandbInit \/ CellTracked \/ CellFinish
    \/ AgentNextTrial \/ SweepBuild \/ FitBatch \/ FitLoopEnd \/ SweepFinish
    \/ AgentStop

SpecSweep == InitSweep /\ [][NextSweep]_vars

SpecSweepFair == SpecSweep /\ WF_vars(NextSweep)

\* a trial has built its module
TrialBuilt == trial > 0 /\ sweep_pc \in {"fit", "finish"}

\* C16 as stated: the module of a trial is built with the values the
\* controller sampled for the trial: the classifier has the sampled
\* architecture and the optimizer the sampled learning rate.
C16_Original ==
    TrialBuilt =>
        /\ module.hparams = config
        /\ module.model = BreastCancerClassifier_sweep(config.hidden_layers,
                                                       config.hidden_neurons)
        /\ module.optimizer.lr = config.learning_rate

\* C17: the agent never starts more than count trials, stops only after
\* exactly count trials, every fit stays within max_epochs epochs and within
\* the batches of the two loaders, and the sweep does stop.
C17_SweepTerminates ==
    /\ [](/\ trial <= agent_count
          /\ sweep_pc = "stopped" => trial = agent_count
          /\ sweep_pc \in {"fit", "finish"} =>
                /\ fit.epoch <= max_epochs
                /\ fit.left <= TrainBatchCount + ValidationBatchCount)
    /\ <>(sweep_pc = "stopped")

C17_Witness == sweep_pc = "stopped" /\ trial = agent_count /\ fit.phase = "done"

(***************************************************************************)
(* Properties of failing steps (Spec)                                      *)
(***************************************************************************)
\* a statement of a train or validation step has raised
StepFailed == error \in {"RuntimeError", "ValueError", "NameError"}

\* C18: when a statement of a train or validation step raises, the program
\* is over: the rest of the step, the remaining batches of the epoch and all
\* later epochs do not run, nothing is retried, and no average is appended
\* or printed afterwards; no state changes any more.
C18_StepFailureEndsRun ==
    /\ [](StepFailed => (pc = "failed" /\ todo = <<>>))
    /\ [][~StepFailed]_vars
    /\ [][StepFailed' => (UNCHANGED <<params, losses, sums, epoch, pending>>)]_vars

C18_Witness ==
    /\ program = "lightning" /\ step_kind = "train" /\ error = "RuntimeError"
    /\ pc = "failed" /\ pending # <<>> /\ epoch < max_epochs

\* C19: when the optimizer updates, the .grad of every parameter is the
\* gradient of the loss of the current batch alone: zero_grad has run in the
\* step before its backward pass, so backward added to nothing.
C19_GradientOfCurrentBatchOnly ==
    ((TrainStepOfCell \/ TrainStepOfModule) /\ "backward" \in Range(step_log))
        => /\ grads = batch_gradient
           /\ \E i, j \in 1..Len(step_log) :
                 i < j /\ step_log[i] = "zero_grad" /\ step_log[j] = "backward"

C19_Witness ==
    /\ TrainStepOfModule /\ Updated /\ optimizer.step >= 2
    /\ GradientNonZero /\ grads = batch_gradient

\* C20: in every train step the optimizer exists and holds exactly the
\* parameters of the current model (built for that model, over all its
\* parameter names), and an update goes to the model whose loss was computed.
C20_OptimizerOverCurrentModel ==
    /\ step_kind = "train" =>
          /\ optimizer # NoValue /\ net # NoValue
          /\ optimizer.model = model_id
          /\ DOMAIN optimizer.exp_avg = ParamNames(net)
          /\ DOMAIN params = ParamNames(net)
    /\ Updated => (loss_value.model = optimizer.model /\ Changed \subseteq ParamNames(net))
    /\ net # NoValue => (optimizer # NoValue /\ optimizer.model = model_id)

C20_Witness ==
    /\ program = "nb1" /\ model_id = 2 /\ step_kind = "train" /\ pc = "train"
    /\ optimizer.model = 2 /\ optimizer.lr = 10

(***************************************************************************)
(* The runs tracked by wandb (SpecSweepFair)                               *)
(***************************************************************************)
RunFinished(run) == run # NoValue /\ run.state = "finished"

\* the same run before and after the step
SameRun == wandb_run # NoValue /\ wandb_run' # NoValue
           /\ wandb_run'.id = wandb_run.id

\* C21: a run in progress is finished, and only by the wandb.finish() that
\* follows the return of its trainer.fit; a finished run stays as it is, no
\* log call reaches it; a run starts only when no other run is in progress;
\* every trial of the sweep has a run of its own, finished before the agent
\* goes on to the next trial; and every run in progress does get finished.
C21_RunLifecycle ==
    /\ [][/\ (RunInProgress(wandb_run) /\ ~RunInProgress(wandb_run')) =>
                /\ sweep_pc = "finish" /\ fit.phase = "done"
                /\ wandb_run' = [wandb_run EXCEPT !.state = "finished"]
          /\ (RunFinished(wandb_run) /\ SameRun) => wandb_run' = wandb_run
          /\ (wandb_run' # wandb_run /\ ~SameRun) =>
                /\ ~RunInProgress(wandb_run)
                /\ wandb_run' = wandb_init(IF wandb_run = NoValue THEN 0
                                           ELSE wandb_run.id)]_vars
    /\ [](/\ (trial > 0 /\ sweep_pc \in {"fit", "finish"}) =>
                (RunInProgress(wandb_run) /\ wandb_run.id = trial + 1)
          /\ sweep_pc \in {"agent", "stopped"} =>
                (RunFinished(wandb_run) /\ wandb_run.id = trial + 1)
          /\ sweep_pc = "sweep" =>
                (RunFinished(wandb_run) /\ wandb_run.id = trial))
    /\ (RunInProgress(wandb_run) ~> RunFinished(wandb_run))

\* the run of the second trial has been logged to and finished, after the run
\* of the first trial
C21_Witness ==
    /\ trial = 2 /\ sweep_pc = "agent"
    /\ RunFinished(wandb_run) /\ wandb_run.id = 3 /\ wandb_run.logged > 0

(***************************************************************************)
(* The dataset under all of its uses                                       *)
(***************************************************************************)
\* Every use of a dataset.  Of a table of at most MaxRows rows that differ:
\* calls of len() and [idx], the split, the loaders and passes over them, in
\* any order.  Of the training tables: the split and the loaders, whose
\* passes call [idx] for every row of a batch, and the train and validation
\* steps of the two training programs.
InitUse == (InitSplit /\ Len(table.features) <= MaxRows) \/ Init

NextUse ==
    \/ program = "none" /\ CallLen
    \/ program = "none" /\ CallGetItem
    \/ program = "none" /\ RandomSplit
    \/ program = "none" /\ MakeLoaders
    \/ program = "none" /\ PassTrain
    \/ program = "none" /\ PassValidation
    \/ Next

SpecUse == InitUse /\ [][NextUse]_vars

\* the Sample of row i (counted from 0) of the source table, of any width
RowSample(i) ==
    <<[c \in 1..Len(table.features[i + 1]) |->
            ToFloat32(table.features[i + 1][c])],
      ToFloat32(table.targets[i + 1])>>

\* C22: no operation changes the dataset: no step changes its feature and
\* label tensors, and at every moment len() is the number of rows of the
\* source table and [i], for every valid i, is the Sample of row i as
\* the construction converted it.
C22_DatasetNeverMutated ==
    /\ [][features' = features /\ targets' = targets]_vars
    /\ [](/\ CancerDataset_len(features) = NRows
          /\ \A i \in 0..(NRows - 1) :
                CancerDataset_getitem(features, targets, i)
                    = [status |-> "ok", value |-> RowSample(i)])

\* after the split, passes over both loaders, train steps that changed the
\* parameters and validation steps, [idx] still returns the Sample of the row
C22_Witness ==
    /\ program = "lightning" /\ pc = "done" /\ epoch >= 1
    /\ step_kind = "validation"
    /\ \E p \in DOMAIN params : params[p] # 0
    /\ CancerDataset_getitem(features, targets, NRows - 1)
          = [status |-> "ok", value |-> RowSample(NRows - 1)]

(***************************************************************************)
(* The length of the notebook-1 training (Spec)                            *)
(***************************************************************************)
\* the epoch loop of notebook 1 has run to its end
LoopEnded == program = "nb1" /\ pc = "done"

\* C23 as stated: the epoch loop body runs exactly 100 times, and when the
\* loop ends train_losses and validation_losses hold exactly 100 entries each.
C23_Original ==
    LoopEnded => /\ epoch = 100
                 /\ Len(losses.train) = 100
                 /\ Len(losses.validation) = 100

(***************************************************************************)
(* The failure of the epoch loop on an empty validation loader (Spec)      *)
(***************************************************************************)
\* the epoch loop has failed on the validation loader without batches
FailedOnEmptyValidation ==
    EmptyValidation /\ pc = "failed" /\ error = "ZeroDivisionError"

\* the failure comes after the whole train phase of the epoch, with one more
\* entry in train_losses than in validation_losses
TrainPhaseCompleteAtFailure ==
    FailedOnEmptyValidation =>
        /\ EpochBatches = Entries("train", TrainBatchCount)
        /\ Len(losses.train) = Len(losses.validation) + 1

\* at an epoch boundary the two lists have one entry per completed epoch
ListsEqualAtBoundary ==
    (program = "nb1" /\ runs >= 1 /\ pc \in {"epoch", "done"}) =>
        /\ Len(losses.train) = epoch
        /\ Len(losses.validation) = epoch

\* C24 as stated: when the epoch loop fails on the empty validation batch
\* collection, every train batch of the epoch has been processed and has
\* updated the model parameters (one optimizer step per train batch), and
\* train_losses is one entry longer than validation_losses; at every epoch
\* boundary reached without failure both lists have as many entries as epochs
\* were completed.
C24_Original ==
    /\ TrainPhaseCompleteAtFailure
    /\ FailedOnEmptyValidation =>
          /\ optimizer.step = epoch * TrainBatchCount
          /\ params # InitialParams(net)
    /\ ListsEqualAtBoundary

(***************************************************************************)
(* The module and the loaders of every fit (SpecSweep)                     *)
(***************************************************************************)
\* a module as its construction leaves it: initial parameters, an optimizer
\* over its own parameters that has taken no step
Fresh(m) ==
    /\ m.params = InitialParams(m.model)
    /\ DOMAIN m.optimizer.exp_avg = ParamNames(m.model)
    /\ m.optimizer.step = 0
    /\ \A p \in ParamNames(m.model) : m.optimizer.exp_avg[p] = 0

\* the training batches the running fit has been through
FitTrainBatchesDone ==
    IF fit.phase = "train"
    THEN fit.epoch * TrainBatchCount + (TrainBatchCount - fit.left)
    ELSE IF fit.phase = "validation" THEN (fit.epoch + 1) * TrainBatchCount
    ELSE fit.epoch * TrainBatchCount

\* C25: every trainer.fit, in the two fit cells and in every trial of the
\* sweep, starts on a module as its construction leaves it, and all the
\* steps its optimizer has taken and all the change of its parameters come
\* from the training batches of this fit; no step changes the split or the
\* dataset the two loaders read.
C25_FreshModuleSameLoaders ==
    /\ [][(sweep_pc # "fit" /\ sweep_pc' = "fit") => Fresh(module')]_vars
    /\ [](sweep_pc \in {"fit", "finish"} =>
            /\ module.optimizer.step = FitTrainBatchesDone
            /\ \A p \in ParamNames(module.model) :
                  module.params[p] = InitialParams(module.model)[p]
                                     - FitTrainBatchesDone)
    /\ [][UNCHANGED <<data_train, data_validation, features, targets>>]_vars

\* the second trial is one training batch into its fit, after the first
\* trial has trained its module: its optimizer has taken one step
C25_Witness ==
    /\ trial = 2 /\ sweep_pc = "fit" /\ fit.phase = "train"
    /\ fit.left = TrainBatchCount - 1 /\ TrainBatchCount >= 2
    /\ module.optimizer.step = 1
    /\ \E p \in ParamNames(module.model) :
          module.params[p] # InitialParams(module.model)[p]

====
